---- MODULE Spec2Model ----
(***************************************************************************)
(* Model of the snake game in src/snake.py: the game loop of Game.run, the *)
(* Snake list with its direction latch, the Food marker and the            *)
(* ScoreCounter with its persisted high score.                             *)
(*                                                                         *)
(* Positions are pairs <<x, y>> of integers.  Distances are compared by    *)
(* their squares (d < 15 iff d*d < 225).  Python list indices are kept     *)
(* 0-based in the loop counters; the TLA+ sequence element of Python index *)
(* i is snake[i + 1].                                                      *)
(*                                                                         *)
(* One loop iteration (a tick) runs through the program positions          *)
(*   loop -> move -> move_del -> food -> self -> bound -> loop             *)
(* and game_over() through  go_reset -> go_score -> crashed.               *)
(* Key-press callbacks are delivered by the toolkit while board.update()   *)
(* runs, that is at position "loop", any number of them per tick; with     *)
(* tracer(0) no other turtle call of the loop processes events.            *)
(***************************************************************************)
EXTENDS Integers, Sequences, FiniteSets, TLC

(* ---------------- bounds of the model ---------------------------------- *)
\* half of the window width / height in pixels (Game(..., width, height, ...))
HalfW == 50
HalfH == 180
\* the tick that would grow the snake beyond MaxLen segments is not taken
MaxLen == 5
\* largest high score found in high_score.txt when the program starts
MaxHigh == 20

(* ---------------- program constants ------------------------------------ *)
STEP == 20
EAT_DIST == 15
HIT_DIST == 25
REWARD == 10
START_X == 0
START_Y == 100
FIRST_PART_mut == 3 - 1
FIRST_PART == 3
RESET_FIRST_mut == 1 - 1
RESET_FIRST == 1
MARGIN == 10
FOOD_MARGIN == 20

VARIABLES
    snake,      \* Snake (a list): sequence of segment positions, head first
    direction,  \* Snake.direction
    food,       \* position of board.food
    score,      \* ScoreCounter.score
    hsOK,       \* high_score.txt exists and holds a number
    high_score, \* the number in high_score.txt (0 when hsOK is FALSE)
    pc,         \* position of the main loop
    head,       \* position of the SnakePart the local `head` of run refers to
    part,       \* loop variable of `for part in range(3, len(snake))`
    stop,       \* end of that range, fixed when the loop starts
    rpart,      \* loop variable of `for part in range(1, len(self))` in reset
    rstop,      \* end of that range
    error,      \* the uncaught exception that ended the loop, or "none"
    lastKey,    \* key whose callback ran last during this board.update()
    dirBefore,  \* Snake.direction when that callback was entered
    lastDir,    \* direction used by the latest Snake.move()
    delta,      \* argument of the latest change_score call
    before,     \* the body as it was when the running move() was entered
    legal,      \* no move() so far ran opposite to the move() before it
    obs         \* what the current tick has done so far

vars == <<snake, direction, food, score, hsOK, high_score, pc, head, part,
          stop, rpart, rstop, error, lastKey, dirBefore, lastDir, delta,
          before, legal, obs>>

(* ---------------- geometry --------------------------------------------- *)
Sq(a) == a * a

Dist2(p, q) == Sq(p[1] - q[1]) + Sq(p[2] - q[2])

x_limit == HalfW - MARGIN

y_limit == HalfH - MARGIN

(* ---------------- Food ------------------------------------------------- *)
FoodInit == <<0, 0>>

\* the positions the random generator is tried with in this model; teleport
\* keeps those inside the limits it is given (randint is taken to accept
\* the integer-valued limits it is given)
Candidates == {<<0, -20>>, <<16, -20>>, <<10, -10>>, <<0, -40>>, <<45, 0>>}

teleport_mut(xl, yl) ==
    {p \in Candidates : -yl <= p[2] /\ p[2] <= yl}

teleport(xl, yl) ==
    {p \in Candidates : /\ -xl <= p[1] /\ p[1] <= xl
                        /\ -yl <= p[2] /\ p[2] <= yl}

(* ---------------- ScoreCounter ----------------------------------------- *)
\* self.score after change_score(score_change)
change_score_score(sc, score_change) == sc + score_change

change_score_high_mut(sc, hs, score_change) ==
    change_score_score(sc, score_change)

change_score_high_flip(sc, hs, score_change) ==
    IF change_score_score(sc, score_change) < hs
    THEN change_score_score(sc, score_change)
    ELSE hs

\* the number in high_score.txt after change_score(score_change)
change_score_high(sc, hs, score_change) ==
    IF change_score_score(sc, score_change) > hs
    THEN change_score_score(sc, score_change)
    ELSE hs

(* ---------------- Snake ------------------------------------------------ *)
Start == <<START_X, START_Y>>

add_part_mut(s, p) == s \o <<p>>

add_part(s, p) == <<p>> \o s

PyIndex(s, i) == IF i < 0 THEN Len(s) + i ELSE i

InRange(s, i) == 0 <= PyIndex(s, i) /\ PyIndex(s, i) < Len(s)

delete_part_mut(s, i) == s

delete_part(s, i) ==
    [k \in 1..(Len(s) - 1) |->
        IF k <= PyIndex(s, i) THEN s[k] ELSE s[k + 1]]

move_target(p, d) ==
    CASE d = "up"    -> <<p[1], p[2] + STEP>>
      [] d = "down"  -> <<p[1], p[2] - STEP>>
      [] d = "right" -> <<p[1] + STEP, p[2]>>
      [] d = "left"  -> <<p[1] - STEP, p[2]>>
      [] OTHER       -> p

\* direction b is the reverse of direction a
Reverses(a, b) ==
    \/ (a = "up" /\ b = "down")
    \/ (a = "down" /\ b = "up")
    \/ (a = "left" /\ b = "right")
    \/ (a = "right" /\ b = "left")

go_up_mut(d) == "up"

go_up(d) == IF d # "down" THEN "up" ELSE d

go_down(d) == IF d # "up" THEN "down" ELSE d

go_right(d) == IF d # "left" THEN "right" ELSE d

go_left(d) == IF d # "right" THEN "left" ELSE d

has_snake_collided_mut(p) ==
    \/ p[1] > x_limit
    \/ p[1] < -x_limit
    \/ p[2] < -y_limit

has_snake_collided(p) ==
    \/ p[1] > x_limit
    \/ p[1] < -x_limit
    \/ p[2] > y_limit
    \/ p[2] < -y_limit

(* ---------------- initial state ---------------------------------------- *)
NoObs == [len0 |-> 1, eaten |-> FALSE, overs |-> 0]

Init ==
    /\ snake = <<Start>>
    /\ direction = "stop"
    /\ food = FoodInit
    /\ score = 0
    /\ hsOK \in BOOLEAN
    /\ high_score \in {h \in 0..MaxHigh : h % REWARD = 0 /\ (hsOK \/ h = 0)}
    /\ pc = "loop"
    /\ head = Start
    /\ part = 0
    /\ stop = 0
    /\ rpart = 0
    /\ rstop = 0
    /\ error = "none"
    /\ lastKey = "none"
    /\ dirBefore = "stop"
    /\ lastDir = "stop"
    /\ delta = 0
    /\ before = <<>>
    /\ legal = TRUE
    /\ obs = NoObs

(* ---------------- key callbacks ---------------------------------------- *)
KeyPress(k, d) ==
    /\ pc = "loop"
    /\ direction' = d
    /\ lastKey' = k
    /\ dirBefore' = direction
    /\ UNCHANGED <<snake, food, score, hsOK, high_score, pc, head, part,
                   stop, rpart, rstop, error, lastDir, obs, delta, before,
                   legal>>

GoUp == KeyPress("w", go_up(direction))

GoDown == KeyPress("s", go_down(direction))

GoRight == KeyPress("d", go_right(direction))

GoLeft == KeyPress("a", go_left(direction))

(* ---------------- the main loop ---------------------------------------- *)
\* board.update(); score_counter.write_score() with a readable file
WriteScore ==
    /\ pc = "loop"
    /\ hsOK
    /\ pc' = "move"
    /\ lastKey' = "none"
    /\ dirBefore' = "stop"
    /\ obs' = [len0 |-> Len(snake), eaten |-> FALSE, overs |-> 0]
    /\ UNCHANGED <<snake, direction, food, score, hsOK, high_score, head,
                   part, stop, rpart, rstop, error, lastDir, delta,
                   before, legal>>

\* write_score() -> get_high_score() -> open() raises: nothing catches it
WriteScoreFails ==
    /\ pc = "loop"
    /\ ~hsOK
    /\ pc' = "crashed"
    /\ error' = "FileNotFoundError"
    /\ UNCHANGED <<snake, direction, food, score, hsOK, high_score, head,
                   part, stop, rpart, rstop, lastKey, dirBefore, lastDir, obs,
                   delta, before, legal>>

\* Snake.move(), first half: self.add_part(x_pos, y_pos)
MoveAdd ==
    /\ pc = "move"
    /\ snake' = add_part(snake, move_target(snake[1], direction))
    /\ lastDir' = direction
    /\ before' = snake
    /\ legal' = (legal /\ ~Reverses(lastDir, direction))
    /\ pc' = "move_del"
    /\ UNCHANGED <<direction, food, score, hsOK, high_score, head, part, stop,
                   rpart, rstop, error, lastKey, dirBefore, obs, delta>>

\* Snake.move(), second half: self.delete_part(-1)
MoveDel ==
    /\ pc = "move_del"
    /\ snake' = delete_part(snake, -1)
    /\ pc' = "food"
    /\ UNCHANGED <<direction, food, score, hsOK, high_score, head, part, stop,
                   rpart, rstop, error, lastKey, dirBefore, lastDir, obs,
                   delta, before, legal>>

FoodNear_mut(h, f) == Dist2(h, f) < Sq(EAT_DIST - 5)

FoodNear(h, f) == Dist2(h, f) < Sq(EAT_DIST)

\* head = snake[0]; the food test succeeds
EatFood ==
    /\ pc = "food"
    /\ FoodNear(snake[1], food)
    /\ Len(snake) < MaxLen
    /\ head' = snake[1]
    /\ delta' = REWARD
    /\ score' = change_score_score(score, REWARD)
    /\ high_score' = change_score_high(score, high_score, REWARD)
    /\ snake' = add_part(snake, food)
    /\ food' \in teleport(x_limit - FOOD_MARGIN, y_limit - FOOD_MARGIN)
    /\ part' = FIRST_PART
    /\ stop' = Len(snake')
    /\ obs' = [obs EXCEPT !.eaten = TRUE]
    /\ before' = <<>>
    /\ pc' = "self"
    /\ UNCHANGED <<direction, hsOK, rpart, rstop, error, lastKey, dirBefore,
                   lastDir, legal>>

\* head = snake[0]; the food test fails
NoFood ==
    /\ pc = "food"
    /\ ~FoodNear(snake[1], food)
    /\ head' = snake[1]
    /\ part' = FIRST_PART
    /\ stop' = Len(snake)
    /\ before' = <<>>
    /\ pc' = "self"
    /\ UNCHANGED <<snake, direction, food, score, hsOK, high_score, rpart,
                   rstop, error, lastKey, dirBefore, lastDir, obs, delta,
                   legal>>

SelfHit_mut(s, i, h) == InRange(s, i) /\ Dist2(s[i + 1], h) < Sq(STEP)

SelfHit(s, i, h) == InRange(s, i) /\ Dist2(s[i + 1], h) < Sq(HIT_DIST)

\* one iteration of `for part in range(3, len(snake))`, or its end
SelfCheck ==
    /\ pc = "self"
    /\ IF part >= stop
       THEN /\ pc' = "bound"
            /\ UNCHANGED <<part, rpart, rstop, obs>>
       ELSE IF SelfHit(snake, part, head)
            THEN /\ pc' = "go_reset"
                 /\ rpart' = RESET_FIRST
                 /\ rstop' = Len(snake)
                 /\ obs' = [obs EXCEPT !.overs = @ + 1]
                 /\ UNCHANGED part
            ELSE /\ part' = part + 1
                 /\ UNCHANGED <<pc, rpart, rstop, obs>>
    /\ UNCHANGED <<snake, direction, food, score, hsOK, high_score, head,
                   stop, error, lastKey, dirBefore, lastDir, delta, before,
                   legal>>

\* the boundary test on `head`
Boundary ==
    /\ pc = "bound"
    /\ IF has_snake_collided(head)
       THEN /\ pc' = "go_reset"
            /\ rpart' = RESET_FIRST
            /\ rstop' = Len(snake)
            /\ obs' = [obs EXCEPT !.overs = @ + 1]
       ELSE /\ pc' = "loop"
            /\ UNCHANGED <<rpart, rstop, obs>>
    /\ UNCHANGED <<snake, direction, food, score, hsOK, high_score, head,
                   part, stop, error, lastKey, dirBefore, lastDir, delta,
                   before, legal>>

(* ---------------- game_over -------------------------------------------- *)
\* Snake.reset(): one iteration of `for part in range(1, len(self))`;
\* delete_part raises IndexError past the end of the shrunken list
ResetDelete ==
    /\ pc = "go_reset"
    /\ rpart < rstop
    /\ snake' = IF InRange(snake, rpart)
                THEN delete_part(snake, rpart)
                ELSE snake
    /\ rpart' = rpart + 1
    /\ UNCHANGED <<direction, food, score, hsOK, high_score, pc, head, part,
                   stop, rstop, error, lastKey, dirBefore, lastDir,
                   obs, delta,
                   before, legal>>

ResetFinish_mut ==
    /\ pc = "go_reset"
    /\ rpart >= rstop
    /\ snake' = [snake EXCEPT ![1] = Start]
    /\ pc' = "go_score"
    /\ UNCHANGED <<direction, food, score, hsOK, high_score, head, part, stop,
                   rpart, rstop, error, lastKey, dirBefore, lastDir, obs,
                   delta, before, legal>>

\* Snake.reset(): self[0].goto(0, 100); self.direction = "stop"
ResetFinish ==
    /\ pc = "go_reset"
    /\ rpart >= rstop
    /\ snake' = [snake EXCEPT ![1] = Start]
    /\ direction' = "stop"
    /\ pc' = "go_score"
    /\ UNCHANGED <<food, score, hsOK, high_score, head, part, stop, rpart,
                   rstop, error, lastKey, dirBefore, lastDir, obs, delta,
                   before, legal>>

\* change_score(-(self.board.score)): Board has no attribute `score`, the
\* argument raises AttributeError; change_score and food.goto never run
GameOverScore ==
    /\ pc = "go_score"
    /\ pc' = "crashed"
    /\ error' = "AttributeError"
    /\ UNCHANGED <<snake, direction, food, score, hsOK, high_score, head,
                   part, stop, rpart, rstop, lastKey, dirBefore, lastDir, obs,
                   delta, before, legal>>

Next ==
    \/ GoUp
    \/ GoDown
    \/ GoRight
    \/ GoLeft
    \/ WriteScore
    \/ WriteScoreFails
    \/ MoveAdd
    \/ MoveDel
    \/ EatFood
    \/ NoFood
    \/ SelfCheck
    \/ Boundary
    \/ ResetDelete
    \/ ResetFinish
    \/ GameOverScore

Spec == Init /\ [][Next]_vars

(* ---------------- the score ledger on its own -------------------------- *)
\* bounds of the ledger specification
MaxScore == 6
MaxDelta == 3

InitLedger ==
    /\ snake = <<Start>>
    /\ direction = "stop"
    /\ food = FoodInit
    /\ score \in -MaxScore..MaxScore
    /\ hsOK = TRUE
    /\ high_score \in 0..MaxScore
    /\ pc = "ledger"
    /\ head = Start
    /\ part = 0
    /\ stop = 0
    /\ rpart = 0
    /\ rstop = 0
    /\ error = "none"
    /\ lastKey = "none"
    /\ dirBefore = "stop"
    /\ lastDir = "stop"
    /\ delta = 0
    /\ before = <<>>
    /\ legal = TRUE
    /\ obs = NoObs

\* ScoreCounter.change_score(dl) called with an arbitrary argument
ChangeScore(dl) ==
    /\ pc = "ledger"
    /\ hsOK
    /\ score + dl \in -MaxScore..MaxScore
    /\ delta' = dl
    /\ score' = change_score_score(score, dl)
    /\ high_score' = change_score_high(score, high_score, dl)
    /\ UNCHANGED <<snake, direction, food, hsOK, pc, head, part, stop, rpart,
                   rstop, error, lastKey, dirBefore, lastDir, obs, before,
                   legal>>

NextLedger == \E dl \in -MaxDelta..MaxDelta : ChangeScore(dl)

SpecLedger == InitLedger /\ [][NextLedger]_vars

(* ======================= the claims ==================================== *)
Opposite(a, b) ==
    <<a, b>> \in {<<"up", "down">>, <<"down", "up">>,
                  <<"left", "right">>, <<"right", "left">>}

Requested(k) ==
    CASE k = "w" -> "up"
      [] k = "s" -> "down"
      [] k = "d" -> "right"
      [] k = "a" -> "left"
      [] OTHER   -> "stop"

InBounds(p) ==
    /\ -x_limit <= p[1] /\ p[1] <= x_limit
    /\ -y_limit <= p[2] /\ p[2] <= y_limit

Max2(a, b) == IF a >= b THEN a ELSE b

\* C1: whatever callbacks run between two consecutive Snake.move() calls,
\* the direction move() uses is never the opposite of the direction the
\* preceding move() used, and with two or more segments the new head never
\* lands on the position the segment at index 1 held before the move.
C1_NeverIntoNeck ==
    [][(pc = "move" /\ pc' = "move_del")
         => /\ ~Opposite(lastDir, direction)
            /\ (Len(snake) >= 2 => snake'[1] # snake[2])]_vars

\* C2: a single request r made while the direction is c leaves c in place
\* when c -> r is one of down->up, up->down, right->left, left->right, and
\* stores r in every other case.
C2_LatchTable ==
    lastKey # "none" =>
        direction = IF <<dirBefore, Requested(lastKey)>> \in
                          {<<"down", "up">>, <<"up", "down">>,
                           <<"right", "left">>, <<"left", "right">>}
                    THEN dirBefore
                    ELSE Requested(lastKey)

C2_Witness == lastKey = "s" /\ dirBefore = "up" /\ direction = "up"

\* C3: when Snake.reset() has returned the body has exactly one segment.
C3_ResetLeavesHead == pc = "go_score" => Len(snake) = 1

\* C4: the step that completes game_over() leaves the current score at 0
\* and the persisted high score as it was.
C4_ScoreZeroAfterGameOver ==
    [][(pc = "go_score" /\ pc' # "go_score")
         => (score' = 0 /\ high_score' = high_score)]_vars

\* C5: no terminal condition ends the loop: game_over() never leaves the
\* program stopped by an uncaught error.
C5_GameOverNotFatal == ~(pc = "crashed" /\ error = "AttributeError")

\* C6 as stated: a head closer than one step (20) to the food after move()
\* makes the food test add 10 to the score, add one segment and move the
\* food to a position inside the bounds.
C6_EatWithinStep ==
    [][(pc = "food" /\ pc' = "self" /\ Dist2(snake[1], food) < 400)
         => /\ score' = score + 10
            /\ Len(snake') = Len(snake) + 1
            /\ InBounds(food')]_vars

\* C6 amended: the same with the pickup threshold of 15 the code uses.
C6_EatWithinFifteen ==
    [][(pc = "food" /\ pc' = "self" /\ Dist2(snake[1], food) < 225)
         => /\ score' = score + 10
            /\ Len(snake') = Len(snake) + 1
            /\ InBounds(food')]_vars

C6_Witness ==
    /\ pc = "self"
    /\ obs.eaten
    /\ Len(snake) = obs.len0 + 1
    /\ snake[1] # head
    /\ score > 0

\* C7: change_score(delta) adds delta to the current score and leaves the
\* persisted high score at the larger of its old value and the new score.
C7_ChangeScore ==
    [][pc = "ledger"
         => /\ score' = score + delta'
            /\ high_score' = Max2(high_score, score + delta')]_vars

C7_Witness ==
    pc = "ledger" /\ delta = 2 /\ score = 3 /\ high_score = 3

\* C8: the persisted high score never decreases.
C8_HighScoreMonotone == [][high_score' >= high_score]_vars

C8_Witness == pc = "self" /\ obs.eaten /\ high_score = score /\ score > MaxHigh

\* a tick has ended: the loop is back at its top, or game_over() ended it
TickEnded == pc = "loop" \/ (pc = "crashed" /\ error = "AttributeError")

\* C9 as stated: move() leaves the body length as it was; a tick that
\* consumed food ends with one segment more than it started with; a tick
\* without food and without a terminal condition ends with the same length.
C9_LengthPerTick ==
    /\ pc = "food" => Len(snake) = obs.len0
    /\ (TickEnded /\ obs.eaten) => Len(snake) = obs.len0 + 1
    /\ (pc = "loop" /\ ~obs.eaten) => Len(snake) = obs.len0

\* C9 amended: the food clause holds for the ticks that raise no terminal
\* condition.
C9_LengthPerCleanTick ==
    /\ pc = "food" => Len(snake) = obs.len0
    /\ (pc = "loop" /\ obs.eaten) => Len(snake) = obs.len0 + 1
    /\ (pc = "loop" /\ ~obs.eaten) => Len(snake) = obs.len0

C9_Witness == pc = "loop" /\ obs.eaten /\ Len(snake) = 3 /\ obs.len0 = 2

\* C10: the snake always has at least one segment, also between the two
\* halves of move() and between the iterations of reset().
C10_HeadExists == Len(snake) >= 1

C10_Witness == pc = "go_reset" /\ rpart = rstop /\ rstop >= 3

\* C11: the food always lies within the board bounds, |x| <= x_limit and
\* |y| <= y_limit: initially, after every teleport and after every reset.
C11_FoodInBounds ==
    /\ -(HalfW - 10) <= food[1] /\ food[1] <= HalfW - 10
    /\ -(HalfH - 10) <= food[2] /\ food[2] <= HalfH - 10

C11_Witness == obs.eaten /\ food # <<0, 0>> /\ pc = "crashed"

\* C12: a body of at most 3 segments never triggers a self-collision: the
\* self-collision test invokes game_over() only with more than 3 segments.
C12_ShortBodyNeverHits ==
    [][(pc = "self" /\ pc' = "go_reset") => Len(snake) > 3]_vars

\* three segments, the last one on the head, and the test has passed
C12_Witness ==
    /\ pc = "bound"
    /\ Len(snake) = 3
    /\ snake[3] = head

\* a terminal condition as the two tests see it: a segment at index 3 or
\* more closer than 25 to the head they look at, or that head out of bounds
Breach ==
    \/ \E i \in 4..Len(snake) : Dist2(snake[i], head) < 625
    \/ head[1] > HalfW - 10 \/ head[1] < 10 - HalfW
    \/ head[2] > HalfH - 10 \/ head[2] < 10 - HalfH

C14_AbsentStoreIsZero == ~hsOK => error # "FileNotFoundError"

\* C15: when Snake.reset() has returned, the head snake[0] is at the start
\* position (0, 100) and the direction is "stop", whatever the body length,
\* the head position and the direction were before.
C15_ResetHeadAndDirection ==
    pc = "go_score" => (snake[1] = <<0, 100>> /\ direction = "stop")

\* reset() has returned for a snake that was moving, was longer than one
\* segment and had its head away from the start position
C15_Witness ==
    /\ pc = "go_score"
    /\ obs.len0 >= 2
    /\ lastDir # "stop"
    /\ head # <<0, 100>>

\* the step move() takes along each direction
Offset(d) ==
    CASE d = "up"    -> <<0, 20>>
      [] d = "down"  -> <<0, -20>>
      [] d = "right" -> <<20, 0>>
      [] d = "left"  -> <<-20, 0>>
      [] d = "stop"  -> <<0, 0>>

\* C16: Snake.move() is a shift-by-one: when it has returned, the body has
\* the length it had, the head is where it was plus 20 along the direction
\* (unmoved for "stop"), and every segment at index i >= 1 is where the
\* segment at index i-1 was before the call.
C16_MoveShiftsByOne ==
    pc = "food" =>
        /\ Len(snake) = Len(before)
        /\ snake[1][1] = before[1][1] + Offset(lastDir)[1]
        /\ snake[1][2] = before[1][2] + Offset(lastDir)[2]
        /\ \A i \in 2..Len(snake) : snake[i] = before[i - 1]

\* move() has returned for a body of several segments whose head went up
\* to (0, 160), three steps above the start position
C16_Witness ==
    /\ pc = "food"
    /\ Len(snake) >= 3
    /\ lastDir = "up"
    /\ before[1] = <<0, 140>>
    /\ snake[1] = <<0, 160>>
    /\ snake[2] = <<0, 140>>

\* C17: a tick whose head is outside the limits after move() invokes
\* game_over() when it reaches the boundary test, so no tick gets back to
\* the head of the loop with the tested head or snake[0] outside the limits.
C17_OutsideIsGameOver ==
    /\ [][(pc = "bound" /\ ~InBounds(head))
            => (pc' = "go_reset" /\ obs'.overs = obs.overs + 1)]_vars
    /\ [](pc = "loop" => (InBounds(head) /\ InBounds(snake[1])))

\* game_over() entered by the boundary test, the head beyond a limit
C17_Witness ==
    /\ pc = "go_reset"
    /\ rpart = 1
    /\ part >= stop
    /\ obs.overs = 1
    /\ ~InBounds(head)
    /\ head = snake[1]

\* C18: in every tick, food ticks included, the self-collision test and
\* the boundary test look at the current head segment snake[0], and the
\* self-collision test starts at index 3 counted from that head.
C18_TestsUseCurrentHead ==
    pc \in {"self", "bound"} => (head = snake[1] /\ part >= 3)

\* the body as move() left it in this tick: in a food tick the segment
\* added at index 0 after move() is left out
AfterMove == IF obs.eaten THEN Tail(snake) ELSE snake

\* C19: after legal (non-reversing) moves only, the self-collision test
\* invokes game_over() only if some body segment is less than one full
\* step (20) away from the head after move(); a U-turn into the adjacent
\* lane with 4 or more segments does not end the game.
C19_HitOnlyOnOverlap ==
    [][(pc = "self" /\ pc' = "go_reset" /\ legal)
         => \E i \in 2..Len(AfterMove) :
                Dist2(AfterMove[i], AfterMove[1]) < 400]_vars

\* the U-turn of the claim: up, right, down with 4 segments on the grid
C19_UTurn ==
    /\ pc = "go_reset"
    /\ rpart = 1
    /\ legal
    /\ ~obs.eaten
    /\ Len(snake) = 4
    /\ \E x \in -HalfW..HalfW, y \in -HalfH..HalfH :
          snake = <<<<x + 20, y>>, <<x + 20, y + 20>>, <<x, y + 20>>, <<x, y>>>>

====
